---- MODULE Spec2Model ----
(***************************************************************************)
(* Shadowsocks AEAD TCP stream framer (lib/shadowsocks/src/tcp/aead.rs):   *)
(* EncryptedWriter -> transport -> DecryptedReader.                        *)
(*                                                                         *)
(* A byte is a number in 0..255.  One poll_write_encrypted call and one    *)
(* poll_read_decrypted call are one action each.  The transport is the     *)
(* byte string `wire` of everything the writer's poll_write calls have     *)
(* accepted so far; the reader's poll_read takes bytes from it at offset   *)
(* rh.off, is Pending when none is left and the stream is open, and        *)
(* returns 0 when none is left and the stream is closed.                   *)
(***************************************************************************)
EXTENDS Integers, Sequences, FiniteSets, TLC

VARIABLES
    wr,         \* the EncryptedWriter: cipher, buffer, state, salt
    wh,         \* history of the writer's calls (what the producer saw)
    wire,       \* bytes accepted by the transport, oldest first
    closed,     \* the sending side has shut the transport down
    rd,         \* the DecryptedReader
    rh,         \* history of the reader's calls (what the consumer saw)
    env         \* what the network did to the stream (tampering, forging)

vars == <<wr, wh, wire, closed, rd, rh, env>>

(***************************************************************************)
(* Bounds of the model.                                                    *)
(***************************************************************************)
\* kind.salt_len() of the modelled cipher kind
SaltLen == 2
\* kind.tag_len() of the modelled cipher kind
TagLen == 1
\* longest plaintext slice of an ordinary producer
MaxChunk == 2
\* poll_write_encrypted calls per connection
MaxCalls == 3
\* largest room the consumer offers in out_buf
MaxRoom == 2
\* polls the consumer makes after a poll returned an error
MaxRetry == 1


(***************************************************************************)
(* Helpers on byte strings.                                                *)
(***************************************************************************)
Min(a, b) == IF a < b THEN a ELSE b

RECURSIVE SumRange(_, _, _)
\* sum of s[lo..hi], by halving (the strings reach 0x4000 bytes)
SumRange(s, lo, hi) ==
    IF lo > hi THEN 0
    ELSE IF lo = hi THEN s[lo]
    ELSE IF lo + 1 = hi THEN s[lo] + s[hi]
    ELSE IF lo + 3 = hi THEN s[lo] + s[lo + 1] + s[lo + 2] + s[hi]
    ELSE IF lo + 7 = hi
    THEN s[lo] + s[lo + 1] + s[lo + 2] + s[lo + 3]
             + s[lo + 4] + s[lo + 5] + s[lo + 6] + s[hi]
    ELSE LET mid == (lo + hi) \div 2
         IN SumRange(s, lo, mid) + SumRange(s, mid + 1, hi)

SumBytes(s) == SumRange(s, 1, Len(s))

RECURSIVE Concat(_)
\* the concatenation of a sequence of byte strings
Concat(ss) == IF ss = <<>> THEN <<>> ELSE Head(ss) \o Concat(Tail(ss))

\* the element of a one-element set: Only({F(x) : x \in {e}}) is F(e) with e
\* evaluated once
Only(S) == CHOOSE x \in S : TRUE

IsPrefix(a, b) == Len(a) <= Len(b) /\ a = SubSeq(b, 1, Len(a))

\* byte x with bit b flipped
FlipBit(x, b) ==
    LET w == 2 ^ b IN IF (x \div w) % 2 = 1 THEN x - w ELSE x + w

(***************************************************************************)
(* crate::crypto::Cipher, an opaque AEAD: keyed by (key, salt), one nonce  *)
(* per call from a counter starting at 0.  Every ciphertext byte and the   *)
(* tag depend on the subkey and on the nonce; decrypt fails on any         *)
(* segment whose bytes or tag were changed or that is opened under         *)
(* another nonce.  `log` records the plaintexts given to encrypt.          *)
(***************************************************************************)
\* the pre-shared key
Key == <<11, 22>>

Cipher_new(key, salt) ==
    [subkey |-> (3 * SumBytes(key) + 5 * SumBytes(salt) + 1) % 256,
     nonce  |-> 0,
     log    |-> <<>>]

Pad(c, i) == (c.subkey + 31 * c.nonce + 7 * i) % 256

Tag(c, ct) ==
    Only({ [j \in 1..TagLen |-> (sum + c.subkey + 13 * c.nonce + j) % 256]
           : sum \in {SumBytes(ct)} })

\* encrypt(buf), buf = plaintext || tag space: the sealed segment
Cipher_encrypt(c, plain) ==
    Only({ [cipher |-> [c EXCEPT !.nonce = @ + 1, !.log = Append(@, plain)],
            out    |-> ct \o Tag(c, ct)]
           : ct \in {[i \in 1..Len(plain) |-> (plain[i] + Pad(c, i)) % 256]} })

\* decrypt(buf), buf = ciphertext || tag: in place, the tag left where it is;
\* the counter moves on whether or not the tag verifies
Cipher_decrypt(c, m) ==
    LET n   == Len(m) - TagLen
        ct  == SubSeq(m, 1, n)
        tag == SubSeq(m, n + 1, Len(m))
        ok  == tag = Tag(c, ct)
    IN [cipher |-> [c EXCEPT !.nonce = @ + 1],
        ok     |-> ok,
        out    |-> IF ok
                   THEN [i \in 1..n |-> (ct[i] + 256 - Pad(c, i)) % 256] \o tag
                   ELSE m]

(***************************************************************************)
(* EncryptedWriter                                                         *)
(***************************************************************************)
\* AEAD packet payload must be smaller than 0x3FFF
MAX_PACKET_SIZE == 16383

AssemblePacketState == [tag |-> "AssemblePacket"]
Writing(pos) == [tag |-> "Writing", pos |-> pos]

EncryptedWriter_new(key, nonce) ==
    [cipher |-> Cipher_new(key, nonce),
     buffer |-> nonce,
     state  |-> AssemblePacketState,
     salt   |-> nonce]

\* mutant: the length little-endian
put_u16_le(n) == <<n % 256, (n % 65536) \div 256>>

\* buffer.put_u16(buf.len() as u16): big-endian
put_u16(n) == <<(n % 65536) \div 256, n % 256>>

\* mutant: cuts only slices longer than 0x4000 bytes
Truncate_OffByOne(buf) ==
    IF Len(buf) > MAX_PACKET_SIZE + 1 THEN SubSeq(buf, 1, MAX_PACKET_SIZE) ELSE buf

\* if buf.len() > MAX_PACKET_SIZE { buf = &buf[..MAX_PACKET_SIZE] }
Truncate(buf) ==
    IF Len(buf) > MAX_PACKET_SIZE THEN SubSeq(buf, 1, MAX_PACKET_SIZE) ELSE buf

\* the AssemblePacket arm: length segment, data segment, Writing{0}
AssemblePacket(w, buf) ==
    Only({ Only({ [w EXCEPT !.cipher = e2.cipher,
                            !.buffer = @ \o e1.out \o e2.out,
                            !.state  = Writing(0)]
                  : e2 \in {Cipher_encrypt(e1.cipher, buf)} })
           : e1 \in {Cipher_encrypt(w.cipher, put_u16(Len(buf)))} })

\* mutant: the reset puts the salt back instead of clearing the buffer
WritingArm_SaltAgain(w, buf, k, how) ==
    LET pos  == w.state.pos
        sent == SubSeq(w.buffer, pos + 1, pos + k)
    IN IF pos + k = Len(w.buffer)
       THEN [w    |-> [w EXCEPT !.state = AssemblePacketState, !.buffer = w.salt],
             ret  |-> [kind |-> "Ok", n |-> Len(buf)],
             sent |-> sent, zero |-> FALSE]
       ELSE [w    |-> [w EXCEPT !.state = Writing(pos + k)],
             ret  |-> [kind |-> IF how = "Zero" THEN "UnexpectedEof" ELSE "Pending"],
             sent |-> sent, zero |-> how = "Zero"]

\* mutant: `if` for `while`: Ready after the first write the transport takes
WritingArm_OneWrite(w, buf, k, how) ==
    LET pos  == w.state.pos
        sent == SubSeq(w.buffer, pos + 1, pos + k)
    IN IF pos + k = Len(w.buffer) \/ k > 0
       THEN [w    |-> [w EXCEPT !.state = AssemblePacketState, !.buffer = <<>>],
             ret  |-> [kind |-> "Ok", n |-> Len(buf)],
             sent |-> sent, zero |-> FALSE]
       ELSE [w    |-> [w EXCEPT !.state = Writing(pos + k)],
             ret  |-> [kind |-> IF how = "Zero" THEN "UnexpectedEof" ELSE "Pending"],
             sent |-> sent, zero |-> how = "Zero"]

\* mutant: without the `n == 0` test a transport that takes nothing looks
\* like one that is not ready
WritingArm_ZeroIsPending(w, buf, k, how) ==
    LET pos  == w.state.pos
        sent == SubSeq(w.buffer, pos + 1, pos + k)
    IN IF pos + k = Len(w.buffer)
       THEN [w    |-> [w EXCEPT !.state = AssemblePacketState, !.buffer = <<>>],
             ret  |-> [kind |-> "Ok", n |-> Len(buf)],
             sent |-> sent, zero |-> FALSE]
       ELSE [w    |-> [w EXCEPT !.state = Writing(pos + k)],
             ret  |-> [kind |-> "Pending"],
             sent |-> sent, zero |-> how = "Zero"]

\* the Writing arm, the transport taking k more bytes in this call and then,
\* if bytes are left, answering `how` ("Pending", or "Zero" for Ready(Ok(0)));
\* zero: poll_write returned Ready(Ok(0)) in this call
WritingArm(w, buf, k, how) ==
    LET pos  == w.state.pos
        sent == SubSeq(w.buffer, pos + 1, pos + k)
    IN IF pos + k = Len(w.buffer)
       THEN [w    |-> [w EXCEPT !.state = AssemblePacketState, !.buffer = <<>>],
             ret  |-> [kind |-> "Ok", n |-> Len(buf)],
             sent |-> sent, zero |-> FALSE]
       ELSE [w    |-> [w EXCEPT !.state = Writing(pos + k)],
             ret  |-> [kind |-> IF how = "Zero" THEN "UnexpectedEof" ELSE "Pending"],
             sent |-> sent, zero |-> how = "Zero"]

\* mutant: a resuming call assembles its slice again behind the unsent bytes
Armed_Reassemble(w, slice) ==
    IF w.state.tag = "AssemblePacket"
    THEN AssemblePacket(w, Truncate(slice))
    ELSE [AssemblePacket(w, Truncate(slice)) EXCEPT !.state = w.state]

\* the writer as the call's loop finds it on reaching the Writing arm
Armed(w, slice) ==
    IF w.state.tag = "AssemblePacket" THEN AssemblePacket(w, Truncate(slice)) ELSE w

\* bytes of the buffer the transport has yet to take
Remaining(w) == Len(w.buffer) - w.state.pos

(***************************************************************************)
(* DecryptedReader.  t = [bytes, off, fin] is the transport as the call    *)
(* sees it; g is the call's trace: eof (poll_read returned 0), polled      *)
(* (poll_read was called), decs (transport offsets of the segments given   *)
(* to decrypt), entered (lengths with which ReadData was entered), nosalt   *)
(* (a decrypt call or a copy into out_buf was made while salt was None).   *)
(***************************************************************************)
None == [some |-> FALSE]
Some(x) == [some |-> TRUE, val |-> x]

WaitSalt(key) == [tag |-> "WaitSalt", key |-> key]
ReadLength == [tag |-> "ReadLength"]
ReadData(length) == [tag |-> "ReadData", length |-> length]
BufferedData(pos) == [tag |-> "BufferedData", pos |-> pos]

DecryptedReader_new(key) ==
    [state      |-> WaitSalt(key),
     cipher     |-> None,
     buffer     |-> <<>>,
     salt       |-> None,
     handshaked |-> FALSE]

NoTrace == [eof |-> FALSE, polled |-> FALSE, decs |-> <<>>, entered |-> <<>>,
            nosalt |-> FALSE]

\* mutant: EOF is Ok(0) whether or not the buffer is empty
pool_read_exact_AnyEofClean(r, t, g, size) ==
    LET need  == size - Len(r.buffer)
        avail == Len(t.bytes) - t.off
        k     == IF need > 0 THEN Min(need, avail) ELSE 0
        r1    == [r EXCEPT !.buffer = @ \o SubSeq(t.bytes, t.off + 1, t.off + k)]
        t1    == [t EXCEPT !.off = @ + k]
        g1    == [g EXCEPT !.polled = @ \/ need > 0]
    IN IF Len(r1.buffer) >= size
       THEN [r |-> r1, t |-> t1, g |-> g1, st |-> "Ok", v |-> size]
       ELSE IF t.fin
       THEN [r |-> r1, t |-> t1, g |-> [g1 EXCEPT !.eof = TRUE], st |-> "Ok", v |-> 0]
       ELSE [r |-> r1, t |-> t1, g |-> g1, st |-> "Pending", v |-> 0]

\* fills buffer up to `size` from the transport: Ok(size), Ok(0) on EOF with
\* an empty buffer, UnexpectedEof on EOF with a partly filled one, or Pending
pool_read_exact(r, t, g, size) ==
    LET need  == size - Len(r.buffer)
        avail == Len(t.bytes) - t.off
        k     == IF need > 0 THEN Min(need, avail) ELSE 0
        r1    == [r EXCEPT !.buffer = @ \o SubSeq(t.bytes, t.off + 1, t.off + k)]
        t1    == [t EXCEPT !.off = @ + k]
        g1    == [g EXCEPT !.polled = @ \/ need > 0]
    IN IF Len(r1.buffer) >= size
       THEN [r |-> r1, t |-> t1, g |-> g1, st |-> "Ok", v |-> size]
       ELSE IF t.fin
       THEN IF r1.buffer # <<>>
            THEN [r |-> r1, t |-> t1, g |-> [g1 EXCEPT !.eof = TRUE],
                  st |-> "UnexpectedEof", v |-> 0]
            ELSE [r |-> r1, t |-> t1, g |-> [g1 EXCEPT !.eof = TRUE],
                  st |-> "Ok", v |-> 0]
       ELSE [r |-> r1, t |-> t1, g |-> g1, st |-> "Pending", v |-> 0]

\* mutant: the salt is left to be remembered after the first decryption
poll_read_salt_NoSalt(r, t, g, key) ==
    Only({ IF e.st # "Ok" THEN e
           ELSE IF e.v < SaltLen THEN [e EXCEPT !.st = "UnexpectedEof"]
           ELSE LET salt == SubSeq(e.r.buffer, 1, SaltLen)
                IN [e EXCEPT !.r = [@ EXCEPT !.cipher = Some(Cipher_new(key, salt))]]
           : e \in {pool_read_exact(r, t, g, SaltLen)} })

\* the salt is read whole, remembered, and the cipher made from it
poll_read_salt(r, t, g, key) ==
    Only({ IF e.st # "Ok" THEN e
           ELSE IF e.v < SaltLen THEN [e EXCEPT !.st = "UnexpectedEof"]
           ELSE LET salt == SubSeq(e.r.buffer, 1, SaltLen)
                IN [e EXCEPT !.r = [@ EXCEPT !.salt = Some(salt),
                                            !.cipher = Some(Cipher_new(key, salt))]]
           : e \in {pool_read_exact(r, t, g, SaltLen)} })

\* mutant: 0x3FFF itself is refused
decrypt_length_OffByOne(cipher, m) ==
    Only({ LET plen == d.out[1] * 256 + d.out[2]
           IN IF ~d.ok
              THEN [cipher |-> d.cipher, m |-> d.out, st |-> "DecryptLengthError", v |-> 0]
              ELSE IF plen >= MAX_PACKET_SIZE
              THEN [cipher |-> d.cipher, m |-> d.out, st |-> "DataTooLong", v |-> plen]
              ELSE [cipher |-> d.cipher, m |-> d.out, st |-> "Ok", v |-> plen]
           : d \in {Cipher_decrypt(cipher, m)} })

\* [cipher, m, st, v]: m is decrypted in place
decrypt_length(cipher, m) ==
    Only({ LET plen == d.out[1] * 256 + d.out[2]
           IN IF ~d.ok
              THEN [cipher |-> d.cipher, m |-> d.out, st |-> "DecryptLengthError", v |-> 0]
              ELSE IF plen > MAX_PACKET_SIZE
              THEN [cipher |-> d.cipher, m |-> d.out, st |-> "DataTooLong", v |-> plen]
              ELSE [cipher |-> d.cipher, m |-> d.out, st |-> "Ok", v |-> plen]
           : d \in {Cipher_decrypt(cipher, m)} })

\* the length segment in the buffer goes through decrypt_length
DecryptLength(e, length_len) ==
    Only({ [r  |-> [e.r EXCEPT !.cipher = Some(dl.cipher),
                               !.buffer = dl.m \o SubSeq(@, length_len + 1, Len(@))],
            t  |-> e.t,
            g  |-> [e.g EXCEPT !.decs = Append(@, e.t.off),
                               !.nosalt = @ \/ ~e.r.salt.some],
            st |-> dl.st,
            v  |-> IF dl.st = "Ok" THEN Some(dl.v) ELSE dl.v]
           : dl \in {decrypt_length(e.r.cipher.val, SubSeq(e.r.buffer, 1, length_len))} })

\* v = Some(length), or None on a clean EOF
poll_read_length(r, t, g) ==
    Only({ IF e.st # "Ok" THEN e
           ELSE IF e.v = 0 THEN [e EXCEPT !.v = None]
           ELSE DecryptLength(e, 2 + TagLen)
           : e \in {pool_read_exact(r, t, g, 2 + TagLen)} })

\* mutant: the result of decrypt is not looked at
DecryptData_Unchecked(e, size) ==
    Only({ LET m == d.out \o SubSeq(e.r.buffer, size + TagLen + 1, Len(e.r.buffer))
           IN [r |-> [e.r EXCEPT !.cipher = Some(d.cipher),
                                 !.buffer = SubSeq(m, 1, Min(size, Len(m)))],
               t |-> e.t, g |-> [e.g EXCEPT !.decs = Append(@, e.t.off),
                               !.nosalt = @ \/ ~e.r.salt.some],
               st |-> "Ok", v |-> 0]
           : d \in {Cipher_decrypt(e.r.cipher.val, SubSeq(e.r.buffer, 1, size + TagLen))} })

\* the data segment in the buffer goes through decrypt; the tag is cut off
DecryptData(e, size) ==
    Only({ LET m == d.out \o SubSeq(e.r.buffer, size + TagLen + 1, Len(e.r.buffer))
           IN IF ~d.ok
              THEN [r |-> [e.r EXCEPT !.cipher = Some(d.cipher), !.buffer = m],
                    t |-> e.t, g |-> [e.g EXCEPT !.decs = Append(@, e.t.off),
                               !.nosalt = @ \/ ~e.r.salt.some],
                    st |-> "DecryptDataError", v |-> 0]
              ELSE [r |-> [e.r EXCEPT !.cipher = Some(d.cipher),
                                      !.buffer = SubSeq(m, 1, Min(size, Len(m)))],
                    t |-> e.t, g |-> [e.g EXCEPT !.decs = Append(@, e.t.off),
                               !.nosalt = @ \/ ~e.r.salt.some],
                    st |-> "Ok", v |-> 0]
           : d \in {Cipher_decrypt(e.r.cipher.val, SubSeq(e.r.buffer, 1, size + TagLen))} })

poll_read_data(r, t, g, size) ==
    Only({ IF e.st # "Ok" THEN e
           ELSE IF e.v = 0 THEN [e EXCEPT !.st = "UnexpectedEof"]
           ELSE DecryptData(e, size)
           : e \in {pool_read_exact(r, t, g, size + TagLen)} })

\* what a call hands back: the reader, the transport, the call's trace, the
\* result (kind "Ok", "Pending" or the error; via names the arm that
\* returned Ok) and the bytes put into out_buf
Returned(r, t, g, ret, out) == [r |-> r, t |-> t, g |-> g, ret |-> ret, out |-> out]

Failed(e) ==
    Returned(e.r, e.t, e.g,
             IF e.st = "DataTooLong" THEN [kind |-> e.st, n |-> e.v]
                                     ELSE [kind |-> e.st],
             <<>>)

\* mutant: the WaitSalt arm forgets `self.handshaked = true`
AfterSalt_NoHandshake(r) ==
    [r EXCEPT !.buffer = <<>>, !.state = ReadLength]

\* the WaitSalt arm's assignments after poll_read_salt
AfterSalt(r) ==
    [r EXCEPT !.buffer = <<>>, !.state = ReadLength, !.handshaked = TRUE]

\* mutant: the ReadLength arm forgets `self.buffer.clear()`
AfterLength_NoClear(r, length) ==
    [r EXCEPT !.state = ReadData(length)]

\* the ReadLength arm's assignments after poll_read_length gave Some(length)
AfterLength(r, length) ==
    [r EXCEPT !.buffer = <<>>, !.state = ReadData(length)]

\* the ReadData arm's assignment after poll_read_data
AfterData(r) == [r EXCEPT !.state = BufferedData(0)]

RECURSIVE ReadLoop(_, _, _, _)

\* mutant: having copied the rest of a frame the arm does not return but goes
\* round the loop, and adds what the next frame gives while room is left
Deliver_Greedy(r, t, g, room) ==
    LET pos      == r.state.pos
        consumed == Min(Len(r.buffer) - pos, room)
        out      == SubSeq(r.buffer, pos + 1, pos + consumed)
        g1       == [g EXCEPT !.nosalt = @ \/ ~r.salt.some]
        here     == Returned([r EXCEPT !.state = BufferedData(pos + consumed)], t, g1,
                             [kind |-> "Ok", via |-> "BufferedData"], out)
    IN IF consumed = room THEN here
       ELSE Only({ IF n.ret.kind = "Ok" /\ n.out # <<>>
                   THEN [n EXCEPT !.out = out \o @]
                   ELSE here
                   : n \in {ReadLoop([r EXCEPT !.buffer = <<>>, !.state = ReadLength],
                                       t, g1, room - consumed)} })

\* mutant: the `return` after put_slice is missing: the call goes round the
\* loop and returns what the next arm gives, the copied bytes left in out_buf
Deliver_NoReturn(r, t, g, room) ==
    LET pos      == r.state.pos
        consumed == Min(Len(r.buffer) - pos, room)
        out      == SubSeq(r.buffer, pos + 1, pos + consumed)
        g1       == [g EXCEPT !.nosalt = @ \/ ~r.salt.some]
        r1       == [r EXCEPT !.state = BufferedData(pos + consumed)]
    IN IF pos + consumed < Len(r.buffer) \/ consumed = 0
       THEN Returned(r1, t, g1, [kind |-> "Ok", via |-> "BufferedData"], out)
       ELSE Only({ [n EXCEPT !.out = out \o @]
                   : n \in {ReadLoop(r1, t, g1, room - consumed)} })

\* mutant: copies all that is buffered, whatever room out_buf has
Deliver_IgnoresRoom(r, t, g, room) ==
    LET pos      == r.state.pos
        consumed == Len(r.buffer) - pos
    IN Returned([r EXCEPT !.state = BufferedData(pos + consumed)], t,
                [g EXCEPT !.nosalt = @ \/ ~r.salt.some],
                [kind |-> "Ok", via |-> "BufferedData"],
                SubSeq(r.buffer, pos + 1, pos + consumed))

\* mutant: copies from the start of the buffer, not from pos
Deliver_FromStart(r, t, g, room) ==
    LET pos      == r.state.pos
        consumed == Min(Len(r.buffer) - pos, room)
    IN Returned([r EXCEPT !.state = BufferedData(pos + consumed)], t,
                [g EXCEPT !.nosalt = @ \/ ~r.salt.some],
                [kind |-> "Ok", via |-> "BufferedData"],
                SubSeq(r.buffer, 1, consumed))

\* the BufferedData arm with plaintext left: copy what fits and return
Deliver(r, t, g, room) ==
    LET pos      == r.state.pos
        consumed == Min(Len(r.buffer) - pos, room)
    IN Returned([r EXCEPT !.state = BufferedData(pos + consumed)], t,
                [g EXCEPT !.nosalt = @ \/ ~r.salt.some],
                [kind |-> "Ok", via |-> "BufferedData"],
                SubSeq(r.buffer, pos + 1, pos + consumed))

\* the BufferedData arm with all plaintext delivered
AfterBuffered(r) == [r EXCEPT !.buffer = <<>>, !.state = ReadLength]

\* mutant: the WaitSalt arm sets handshaked before it waits for the salt
ReadLoop_EarlyHandshake(r, t, g, room) ==
    CASE r.state.tag = "WaitSalt" ->
            Only({ IF e.st # "Ok" THEN Failed([e EXCEPT !.r.handshaked = TRUE])
                   ELSE ReadLoop(AfterSalt(e.r), e.t, e.g, room)
                   : e \in {poll_read_salt(r, t, g, r.state.key)} })
      [] r.state.tag = "ReadLength" ->
            Only({ IF e.st # "Ok" THEN Failed(e)
                   ELSE IF ~e.v.some
                   THEN Returned(e.r, e.t, e.g, [kind |-> "Ok", via |-> "None"], <<>>)
                   ELSE ReadLoop(AfterLength(e.r, e.v.val), e.t,
                                 [e.g EXCEPT !.entered = Append(@, e.v.val)], room)
                   : e \in {poll_read_length(r, t, g)} })
      [] r.state.tag = "ReadData" ->
            Only({ IF e.st # "Ok" THEN Failed(e)
                   ELSE ReadLoop(AfterData(e.r), e.t, e.g, room)
                   : e \in {poll_read_data(r, t, g, r.state.length)} })
      [] r.state.tag = "BufferedData" ->
            IF r.state.pos < Len(r.buffer)
            THEN Deliver(r, t, g, room)
            ELSE Only({ ReadLoop(r1, t, g, room) : r1 \in {AfterBuffered(r)} })

\* mutant: `<=` for `<` in the BufferedData arm: a frame without plaintext
\* makes the call return with nothing copied
ReadLoop_EmptyFrameReturns(r, t, g, room) ==
    CASE r.state.tag = "WaitSalt" ->
            Only({ IF e.st # "Ok" THEN Failed(e)
                   ELSE ReadLoop(AfterSalt(e.r), e.t, e.g, room)
                   : e \in {poll_read_salt(r, t, g, r.state.key)} })
      [] r.state.tag = "ReadLength" ->
            Only({ IF e.st # "Ok" THEN Failed(e)
                   ELSE IF ~e.v.some
                   THEN Returned(e.r, e.t, e.g, [kind |-> "Ok", via |-> "None"], <<>>)
                   ELSE ReadLoop(AfterLength(e.r, e.v.val), e.t,
                                 [e.g EXCEPT !.entered = Append(@, e.v.val)], room)
                   : e \in {poll_read_length(r, t, g)} })
      [] r.state.tag = "ReadData" ->
            Only({ IF e.st # "Ok" THEN Failed(e)
                   ELSE ReadLoop(AfterData(e.r), e.t, e.g, room)
                   : e \in {poll_read_data(r, t, g, r.state.length)} })
      [] r.state.tag = "BufferedData" ->
            IF r.state.pos < Len(r.buffer) \/ r.buffer = <<>>
            THEN Deliver(r, t, g, room)
            ELSE Only({ ReadLoop(r1, t, g, room) : r1 \in {AfterBuffered(r)} })

\* the loop of poll_read_decrypted
ReadLoop(r, t, g, room) ==
    CASE r.state.tag = "WaitSalt" ->
            Only({ IF e.st # "Ok" THEN Failed(e)
                   ELSE ReadLoop(AfterSalt(e.r), e.t, e.g, room)
                   : e \in {poll_read_salt(r, t, g, r.state.key)} })
      [] r.state.tag = "ReadLength" ->
            Only({ IF e.st # "Ok" THEN Failed(e)
                   ELSE IF ~e.v.some
                   THEN Returned(e.r, e.t, e.g, [kind |-> "Ok", via |-> "None"], <<>>)
                   ELSE ReadLoop(AfterLength(e.r, e.v.val), e.t,
                                 [e.g EXCEPT !.entered = Append(@, e.v.val)], room)
                   : e \in {poll_read_length(r, t, g)} })
      [] r.state.tag = "ReadData" ->
            Only({ IF e.st # "Ok" THEN Failed(e)
                   ELSE ReadLoop(AfterData(e.r), e.t, e.g, room)
                   : e \in {poll_read_data(r, t, g, r.state.length)} })
      [] r.state.tag = "BufferedData" ->
            IF r.state.pos < Len(r.buffer)
            THEN Deliver(r, t, g, room)
            ELSE Only({ ReadLoop(r1, t, g, room) : r1 \in {AfterBuffered(r)} })

poll_read_decrypted(r, t, room) == ReadLoop(r, t, NoTrace, room)

(***************************************************************************)
(* The connection: producer, writer, transport, reader, consumer.          *)
(***************************************************************************)
\* the salts the sender may have drawn
Salts == {[i \in 1..SaltLen |-> 100 + 7 * i]}

\* the plaintext slice of length n the producer passes in its c-th call
Slice(c, n) == [j \in 1..n |-> (16 * c + j) % 256]

Init ==
    \E salt \in Salts :
        /\ wr = EncryptedWriter_new(Key, salt)
        /\ wh = [calls    |-> 0,       \* poll_write_encrypted calls made
                 rets     |-> <<>>,    \* the n of every Ready(Ok(n))
                 believed |-> <<>>,    \* the first n bytes of the slice of every Ready(Ok(n))
                 frames   |-> <<>>,    \* the slice, cut to the ceiling, of every assembling call
                 slices   |-> <<>>,    \* the whole slice of every assembling call
                 steady   |-> TRUE,    \* every resuming call passed the assembling call's slice
                 resumed  |-> FALSE,   \* the last call began in Writing
                 slice    |-> <<>>,    \* the last call's slice
                 last     |-> "None",  \* the last call's result
                 zero     |-> FALSE,   \* the transport answered Ready(Ok(0)) in the last call
                 left     |-> 0]       \* bytes the writer had yet to send at that answer
        /\ wire = <<>>
        /\ closed = FALSE
        /\ rd = DecryptedReader_new(Key)
        /\ rh = [off       |-> 0,       \* bytes the reader took from the transport
                 delivered |-> <<>>,    \* bytes put into the consumer's out_buf
                 last      |-> [kind |-> "None"],  \* the last call's result
                 out       |-> <<>>,    \* bytes the last call put into out_buf
                 room      |-> 0,       \* room out_buf had in the last call
                 trace     |-> NoTrace, \* the last call's trace
                 before    |-> DecryptedReader_new(Key),  \* the reader as the last call found it
                 decs      |-> <<>>,    \* all decrypt calls: transport offset of the segment
                 dry       |-> TRUE,    \* the last call left nothing on the transport
                 more      |-> FALSE,   \* the last call left a whole frame with plaintext there
                 retries   |-> 0]       \* polls made after a poll returned an error
        /\ env = [tampered |-> 0,       \* index in wire of the byte with a flipped bit
                  forged   |-> <<>>]    \* decoded values of the crafted length segments

\* the slice the call that assembled the frame in the buffer was given
AssembledSlice == wh.slices[Len(wh.slices)]

\* one poll_write_encrypted(cx, stream, slice) call: the loop's first pass
\* arms the writer; in the Writing arm the transport, with room for one of
\* `windows` bytes, takes what fits and then, if bytes are left, answers `how`
PollWrite(slice, windows, how) ==
    /\ ~closed
    /\ env.forged = <<>>
    /\ wh.calls < MaxCalls
    /\ \E w1 \in {Armed(wr, slice)}, assembling \in {wr.state.tag = "AssemblePacket"} :
         \E k \in {Min(x, Remaining(w1)) : x \in windows} :
           \E c \in {WritingArm(w1, Truncate(slice), k, how)} :
             /\ how = "Zero" => c.zero
             /\ wr' = c.w
             /\ wire' = wire \o c.sent
             /\ wh' = [wh EXCEPT
                         !.calls = @ + 1,
                         !.rets = IF c.ret.kind = "Ok" THEN Append(@, c.ret.n) ELSE @,
                         !.believed = IF c.ret.kind = "Ok"
                                      THEN @ \o SubSeq(slice, 1, c.ret.n) ELSE @,
                         !.frames = IF assembling THEN Append(@, Truncate(slice)) ELSE @,
                         !.slices = IF assembling THEN Append(@, slice) ELSE @,
                         !.steady = @ /\ (assembling \/ slice = AssembledSlice),
                         !.resumed = ~assembling,
                         !.slice = slice,
                         !.last = c.ret.kind,
                         !.zero = c.zero,
                         !.left = IF c.zero THEN Remaining(w1) - k ELSE 0]
    /\ UNCHANGED <<closed, rd, rh, env>>

\* the slices a producer may pass when it starts on a new chunk
FreshSlices == {Slice(wh.calls + 1, n) : n \in 0..MaxChunk}

\* every room the transport may have for an ordinary frame
Windows == 0..(SaltLen + 2 + TagLen + MaxChunk + TagLen)

\* a producer that writes chunk after chunk: a fresh slice when the writer
\* assembles, the same slice again when it resumes after Pending
Write ==
    \E slice \in IF wr.state.tag = "AssemblePacket" THEN FreshSlices
                                                     ELSE {AssembledSlice} :
        PollWrite(slice, Windows, "Pending")

\* a producer that resumes after Pending with another slice
WriteOther ==
    /\ wr.state.tag = "Writing"
    /\ \E slice \in FreshSlices \ {AssembledSlice} :
          PollWrite(slice, Windows, "Pending")

\* a transport that answers Ready(Ok(0)) while bytes are left
WriteZero ==
    \E slice \in IF wr.state.tag = "AssemblePacket" THEN FreshSlices
                                                     ELSE {AssembledSlice} :
        PollWrite(slice, Windows, "Zero")

\* the lengths of the slices of a producer with much to send (0x3FFF, 0x4000
\* and 0x5000 bytes)
BigLengths == {MAX_PACKET_SIZE, MAX_PACKET_SIZE + 1, 20480}

\* a producer that passes slices at and above the ceiling, and passes the
\* same slice again when it resumes; the transport has room for nothing, for
\* one byte, for 0x3FFF bytes or for everything
WriteBig ==
    \E slice \in IF wr.state.tag = "AssemblePacket"
                  THEN {Slice(wh.calls + 1, n) : n \in BigLengths}
                  ELSE {AssembledSlice} :
        PollWrite(slice, {0, 1, MAX_PACKET_SIZE, 65536}, "Pending")

\* the sending side shuts the transport down
Close ==
    /\ ~closed
    /\ closed' = TRUE
    /\ UNCHANGED <<wr, wh, wire, rd, rh, env>>

IsError(ret) == ret.kind \notin {"None", "Ok", "Pending"}

\* the stream offsets at which the segments of the frames end, in order
RECURSIVE SegmentEnds(_, _)
SegmentEnds(frames, base) ==
    IF frames = <<>> THEN <<>>
    ELSE LET lenEnd == base + 2 + TagLen
             datEnd == lenEnd + Len(Head(frames)) + TagLen
         IN <<lenEnd, datEnd>> \o SegmentEnds(Tail(frames), datEnd)

\* a frame with plaintext, later than the first n frames, lies complete on
\* the transport
FurtherFrame(n) ==
    \E j \in 1..Len(wh.frames) :
        /\ j > n
        /\ wh.frames[j] # <<>>
        /\ SegmentEnds(wh.frames, SaltLen)[2 * j] <= Len(wire)

\* one poll_read_decrypted(cx, stream, out_buf) call, out_buf having room for `room` bytes
PollRead(room) ==
    /\ IsError(rh.last) => rh.retries < MaxRetry
    /\ \E c \in {poll_read_decrypted(rd, [bytes |-> wire, off |-> rh.off, fin |-> closed],
                                       room)} :
       /\ rd' = c.r
       /\ rh' = [rh EXCEPT
                   !.off = c.t.off,
                   !.delivered = @ \o c.out,
                   !.last = c.ret,
                   !.out = c.out,
                   !.room = room,
                   !.trace = c.g,
                   !.before = rd,
                   !.decs = @ \o c.g.decs,
                   !.dry = c.t.off = Len(wire),
                   !.more = FurtherFrame(Len(rh.decs \o c.g.decs) \div 2),
                   !.retries = IF IsError(rh.last) THEN @ + 1 ELSE @]
       /\ UNCHANGED <<wr, wh, wire, closed, env>>

Read == \E room \in 0..MaxRoom : PollRead(room)

Next == Write \/ Close \/ Read

Spec == Init /\ [][Next]_vars

\* the network flips one bit, the lowest or the highest, of one ciphertext byte
\* (length, payload or tag; not the salt) that the reader has yet to take
Tamper ==
    /\ env.tampered = 0
    /\ \E i \in 1..Len(wire), b \in {0, 7} :
          /\ i > SaltLen
          /\ i > rh.off
          /\ wire' = [wire EXCEPT ![i] = FlipBit(@, b)]
          /\ env' = [env EXCEPT !.tampered = i]
    /\ UNCHANGED <<wr, wh, closed, rd, rh>>

NextTamper == Next \/ Tamper

SpecTamper == Init /\ [][NextTamper]_vars

\* the values a peer that holds the key may put into a length segment
ForgedLengths == {0, 1, MAX_PACKET_SIZE, MAX_PACKET_SIZE + 1, 65535}

\* in place of the next frame the sending peer emits a validly sealed length
\* segment of its own making, and nothing after it
Forge ==
    /\ ~closed
    /\ env.forged = <<>>
    /\ wr.state.tag = "AssemblePacket" /\ wr.buffer = <<>>
    /\ \E n \in ForgedLengths :
          /\ wire' = wire \o Cipher_encrypt(wr.cipher, <<n \div 256, n % 256>>).out
          /\ env' = [env EXCEPT !.forged = <<n>>]
    /\ UNCHANGED <<wr, wh, closed, rd, rh>>

NextForge == Next \/ Forge

SpecForge == Init /\ [][NextForge]_vars

\* the writer alone, with every producer and every transport
NextWriter == Write \/ WriteOther \/ WriteZero

SpecWriter == Init /\ [][NextWriter]_vars

\* the writer alone, fed slices at and above the ceiling
NextCeiling == WriteBig

SpecCeiling == Init /\ [][NextCeiling]_vars

(***************************************************************************)
(* Claims                                                                  *)
(***************************************************************************)
\* the transport was shut down with every assembled frame fully written
CleanClose == closed /\ wr.state.tag = "AssemblePacket"

\* Ready(Ok) from the ReadLength arm: the clean EOF
CleanEof(ret) == ret.kind = "Ok" /\ ret.via = "None"

\* C1 as stated: for every sequence of chunks written through the writer, also
\* the empty one, the reader delivers exactly their concatenation in order and
\* then reports clean EOF once the transport is closed.
C1_RoundTripEverySequence ==
    /\ IsPrefix(rh.delivered, wh.believed)
    /\ CleanClose => /\ ~IsError(rh.last)
                     /\ CleanEof(rh.last) => rh.delivered = wh.believed

\* C1 amended: for every sequence of chunks of which at least one write has
\* returned Ready(Ok), what the reader has delivered is at every moment a prefix
\* of the concatenation of the chunks; once the transport is closed the reader
\* returns no error, and when it reports clean EOF it has delivered all of it.
C1_RoundTrip ==
    /\ IsPrefix(rh.delivered, wh.believed)
    /\ (CleanClose /\ Len(wh.rets) >= 1) =>
           /\ ~IsError(rh.last)
           /\ CleanEof(rh.last) => rh.delivered = wh.believed

\* two chunks, the first one written over two calls, read back whole
C1_Witness ==
    /\ CleanClose
    /\ wh.calls = 3 /\ Len(wh.rets) = 2
    /\ CleanEof(rh.last)
    /\ Len(rh.delivered) = 4
    /\ rh.delivered = wh.believed

\* the segments of the frames, sealed one after the other from cipher state c
RECURSIVE FramesOnWire(_, _)
FramesOnWire(c, frames) ==
    IF frames = <<>> THEN <<>>
    ELSE LET f  == Head(frames)
             e1 == Cipher_encrypt(c, <<Len(f) \div 256, Len(f) % 256>>)
             e2 == Cipher_encrypt(e1.cipher, f)
         IN e1.out \o e2.out \o FramesOnWire(e2.cipher, Tail(frames))

\* salt_len + sum over the frames of (2 + tag_len + Ni + tag_len)
RECURSIVE WireSize(_)
WireSize(frames) ==
    IF frames = <<>> THEN SaltLen
    ELSE 2 + TagLen + Len(Head(frames)) + TagLen + WireSize(Tail(frames))

\* C2: after k calls have returned Ready(Ok), the transport holds the salt
\* followed, per frame in order, by the sealed 2-byte big-endian length and
\* the sealed payload, salt_len + sum(2 + tag_len + Ni + tag_len) bytes in
\* all, however the transport split the writes.
C2_WireLayout ==
    (wr.state.tag = "AssemblePacket" /\ Len(wh.rets) >= 1) =>
        /\ wire = wr.salt \o FramesOnWire(Cipher_new(Key, wr.salt), wh.frames)
        /\ Len(wire) = WireSize(wh.frames)
        /\ wr.salt \in Salts

\* two frames with payloads, one of them written over two calls
C2_Witness ==
    /\ wr.state.tag = "AssemblePacket"
    /\ wh.calls = 3 /\ Len(wh.rets) = 2
    /\ Len(wh.frames[1]) = 2 /\ Len(wh.frames[2]) = 1
    /\ Len(wire) = SaltLen + 4 + 4 * TagLen + 3

\* C3: per frame the writer calls encrypt exactly twice, on the length segment
\* and then on the data segment; a call that resumes in Writing encrypts
\* nothing, so after k assembled frames the cipher has advanced 2k times.
C3_NonceDiscipline ==
    /\ wr.cipher.nonce = 2 * Len(wh.frames)
    /\ Len(wr.cipher.log) = 2 * Len(wh.frames)
    /\ \A i \in 1..Len(wh.frames) :
          /\ wr.cipher.log[2 * i - 1]
                = <<Len(wh.frames[i]) \div 256, Len(wh.frames[i]) % 256>>
          /\ wr.cipher.log[2 * i] = wh.frames[i]

\* a second frame assembled after the first needed a resuming call
C3_Witness ==
    /\ wh.calls = 3 /\ wh.resumed = FALSE
    /\ Len(wh.frames) = 2 /\ Len(wh.rets) = 1
    /\ wr.cipher.nonce = 4

\* C4: whenever poll_write_encrypted returns Ready(Ok(n)), n is the number of
\* plaintext bytes accepted into the frame this call finished draining, also
\* when an earlier call assembled it and this call got a slice of another
\* length.
C4_ReturnsAcceptedBytes ==
    wh.last = "Ok" => wh.rets[Len(wh.rets)] = Len(wh.frames[Len(wh.frames)])

LastFrameSize == 2 + TagLen + Len(wh.frames[Len(wh.frames)]) + TagLen

\* C6: the first salt_len bytes handed to the transport are the salt given to
\* EncryptedWriter::new, ahead of the first frame; once a call has returned
\* Ready(Ok) the buffer never holds the salt again, so the bytes handed over
\* count one salt and the frames, whatever the writes and partial writes.
C6_SaltOnce ==
    /\ wr.salt \in Salts
    /\ \A i \in 1..Min(Len(wire), SaltLen) : wire[i] = wr.salt[i]
    /\ Len(wh.rets) = 0 =>
          /\ IsPrefix(wr.salt, wr.buffer)
          /\ wr.state.tag = "Writing" => Len(wr.buffer) = SaltLen + LastFrameSize
    /\ Len(wh.rets) >= 1 =>
          /\ Len(wire) >= SaltLen
          /\ wr.state.tag = "AssemblePacket" => wr.buffer = <<>>
          /\ wr.state.tag = "Writing" => Len(wr.buffer) = LastFrameSize
    /\ wr.state.tag = "Writing" => Len(wire) + Remaining(wr) = WireSize(wh.frames)
    /\ (wr.state.tag = "AssemblePacket" /\ wh.frames # <<>>) =>
          Len(wire) = WireSize(wh.frames)

\* a second frame part-way out, behind a first frame that carried the salt
C6_Witness ==
    /\ Len(wh.rets) = 1 /\ wh.calls = 3
    /\ wr.state.tag = "Writing" /\ wr.state.pos > 0
    /\ Len(wr.buffer) = LastFrameSize
    /\ SubSeq(wire, 1, SaltLen) = wr.salt

\* C7: a call assembles at most one frame and returns Ready(Ok) only when the
\* transport has accepted every buffered byte, the buffer then being empty and
\* the state AssemblePacket; a Pending return leaves Writing{pos}, pos being
\* the number of buffered bytes accepted so far and pos < buffer length.
C7_DrainBeforeReady ==
    /\ wr.cipher.nonce <= 2 * wh.calls
    /\ wr.state.tag = "Writing" =>
          Len(wr.buffer) \in {LastFrameSize, SaltLen + LastFrameSize}
    /\ wh.last = "Ok" =>
          /\ wr.state = AssemblePacketState
          /\ wr.buffer = <<>>
          /\ Len(wire) = WireSize(wh.frames)
    /\ wh.last = "Pending" =>
          /\ wr.state.tag = "Writing"
          /\ wr.state.pos < Len(wr.buffer)
          /\ SubSeq(wr.buffer, 1, wr.state.pos)
                = SubSeq(wire, Len(wire) - wr.state.pos + 1, Len(wire))
          /\ Len(wire) + Len(wr.buffer) - wr.state.pos = WireSize(wh.frames)

\* a Pending return inside the data segment of a second frame
C7_Witness ==
    /\ wh.last = "Pending" /\ Len(wh.rets) = 1
    /\ wr.state.tag = "Writing"
    /\ wr.state.pos > 2 + TagLen /\ wr.state.pos < Len(wr.buffer)

\* C8: a transport EOF gives clean EOF (Ready(Ok), nothing delivered) exactly
\* when the reader is in ReadLength with an empty buffer; in WaitSalt, in
\* ReadLength with a partly filled buffer and in ReadData, with any number of
\* bytes read or none, it gives UnexpectedEof.
C8_EofClassification ==
    /\ rh.trace.eof =>
          /\ rh.out = <<>>
          /\ rd.state.tag \in {"WaitSalt", "ReadLength", "ReadData"}
          /\ IF rd.state.tag = "ReadLength" /\ rd.buffer = <<>>
             THEN CleanEof(rh.last)
             ELSE rh.last.kind = "UnexpectedEof"
    /\ CleanEof(rh.last) => rh.trace.eof
    /\ rh.last.kind = "UnexpectedEof" => rh.trace.eof

\* EOF right after a length segment: ReadData with nothing read
C8_Witness ==
    /\ rh.trace.eof
    /\ rd.state.tag = "ReadData" /\ rd.buffer = <<>>
    /\ rh.last.kind = "UnexpectedEof"

\* EOF inside a length segment
C8_WitnessPartialLength ==
    /\ rh.trace.eof
    /\ rd.state.tag = "ReadLength" /\ rd.buffer # <<>>
    /\ rh.last.kind = "UnexpectedEof"

\* EOF before any salt byte
C8_WitnessNoSalt ==
    /\ rh.trace.eof
    /\ rd.state.tag = "WaitSalt" /\ rd.buffer = <<>>
    /\ rh.last.kind = "UnexpectedEof"

\* EOF at a frame boundary after a frame was delivered
C8_WitnessClean ==
    /\ rh.trace.eof
    /\ CleanEof(rh.last) /\ rh.delivered # <<>>

\* the segment of the stream that holds byte i: its kind, the offset of its
\* last byte and the plaintext bytes of the frames before its frame
RECURSIVE Locate(_, _, _, _)
Locate(i, frames, base, before) ==
    LET lenEnd == base + 2 + TagLen
        datEnd == lenEnd + Len(Head(frames)) + TagLen
    IN IF i <= lenEnd THEN [kind |-> "length", end |-> lenEnd, before |-> before]
       ELSE IF i <= datEnd THEN [kind |-> "data", end |-> datEnd, before |-> before]
       ELSE Locate(i, Tail(frames), datEnd, before + Len(Head(frames)))

TamperedSegment == Locate(env.tampered, wh.frames, SaltLen, 0)

\* C9: with an AEAD that rejects every modified segment, one flipped bit in a
\* ciphertext byte (length, payload or either tag) makes the poll that takes
\* the rest of that segment return DecryptLengthError (length segment) or
\* DecryptDataError (data segment); no byte of the tampered frame reaches the
\* consumer, and what was delivered before is the untampered plaintext.
C9_TamperRejected ==
    /\ IsPrefix(rh.delivered, Concat(wh.frames))
    /\ env.tampered > 0 =>
          /\ Len(rh.delivered) <= TamperedSegment.before
          /\ rh.off <= TamperedSegment.end
          /\ rh.off = TamperedSegment.end =>
                rh.last.kind = IF TamperedSegment.kind = "length"
                               THEN "DecryptLengthError" ELSE "DecryptDataError"
    /\ rh.last.kind \in {"DecryptLengthError", "DecryptDataError"} =>
          env.tampered > 0 /\ rh.off = TamperedSegment.end

\* the tag of the second frame's payload was hit: the first frame was
\* delivered, the second is refused
C9_Witness ==
    /\ env.tampered > 0
    /\ Len(wh.frames) = 2 /\ Len(wh.frames[2]) = 2
    /\ env.tampered = TamperedSegment.end /\ TamperedSegment.kind = "data"
    /\ TamperedSegment.before > 0
    /\ rh.last.kind = "DecryptDataError"
    /\ rh.delivered = wh.frames[1]

\* the first length byte of the first frame was hit
C9_WitnessLength ==
    /\ env.tampered = SaltLen + 1
    /\ rh.last.kind = "DecryptLengthError"
    /\ rh.delivered = <<>>

\* the reader has taken the whole of the forged length segment
ForgedTaken == env.forged # <<>> /\ rh.off = Len(wire)

C10_WitnessCeiling ==
    ForgedTaken /\ env.forged = <<MAX_PACKET_SIZE>> /\ rd.state = ReadData(MAX_PACKET_SIZE)

C10_WitnessZero ==
    ForgedTaken /\ env.forged = <<0>> /\ rd.state = ReadData(0)

\* C11: whenever the transport's poll_write answers Ready(Ok(0)) while the
\* writer has bytes yet to send, that poll_write_encrypted call returns
\* UnexpectedEof, never Ready(Ok(_)); the writer stays in Writing.
C11_ZeroWriteIsEof ==
    wh.zero =>
        /\ wh.left > 0
        /\ wh.last = "UnexpectedEof"
        /\ wr.state.tag = "Writing" /\ Remaining(wr) = wh.left

\* the transport took part of the second frame and then nothing
C11_Witness ==
    /\ wh.zero /\ wh.last = "UnexpectedEof"
    /\ Len(wh.frames) = 2 /\ Len(wh.rets) = 1
    /\ wr.state.pos > 0

\* the call found the reader in BufferedData with plaintext yet to deliver
FoundUndelivered ==
    /\ rh.last.kind # "None"
    /\ rh.before.state.tag = "BufferedData"
    /\ rh.before.state.pos < Len(rh.before.buffer)

\* C12: a call that finds the reader in BufferedData with undelivered
\* plaintext reads nothing from the transport and decrypts nothing; offered one
\* byte of room it delivers the next byte of the frame and no more, so a frame
\* of L bytes takes L polls; each segment is decrypted once, in stream order
\* (length, then data); and the reader is never past the end of the frame
\* whose plaintext it still holds.
C12_Backpressure ==
    /\ FoundUndelivered =>
          /\ ~rh.trace.polled /\ rh.trace.decs = <<>>
          /\ rd.buffer = rh.before.buffer /\ rd.state.tag = "BufferedData"
          /\ rh.out = SubSeq(rh.before.buffer, rh.before.state.pos + 1, rd.state.pos)
          /\ rh.room = 1 => rd.state.pos = rh.before.state.pos + 1
    /\ rh.room = 1 /\ rh.last.kind = "Ok" => Len(rh.out) <= 1
    /\ IsPrefix(rh.decs, SegmentEnds(wh.frames, SaltLen))
    /\ \A i \in 1..(2 * Len(wh.frames)) :
          SegmentEnds(wh.frames, SaltLen)[i] <= rh.off => i <= Len(rh.decs)
    /\ rd.state.tag = "BufferedData" =>
          /\ rh.decs # <<>> /\ Len(rh.decs) % 2 = 0
          /\ rh.off = rh.decs[Len(rh.decs)]
          /\ rd.buffer = wh.frames[Len(rh.decs) \div 2]
          /\ rh.delivered = Concat(SubSeq(wh.frames, 1, Len(rh.decs) \div 2 - 1))
                               \o SubSeq(rd.buffer, 1, rd.state.pos)
    /\ rd.state.tag # "BufferedData" =>
          rh.delivered = Concat(SubSeq(wh.frames, 1, Len(rh.decs) \div 2))

\* the second byte of a two-byte frame goes out in a poll of its own while
\* the bytes of the next frame wait on the transport
C12_Witness ==
    /\ FoundUndelivered
    /\ rh.room = 1 /\ rh.before.state.pos = 1 /\ Len(rh.before.buffer) = 2
    /\ rh.out = <<rh.before.buffer[2]>>
    /\ Len(rh.decs) = 2
    /\ Len(wire) > rh.off

\* C13: salt() is None until salt_len bytes were read from the transport;
\* from then on it is the first salt_len bytes the writer emitted and never
\* changes; no decrypt call and no copy into out_buf is made while it is None.
C13_SaltExposure ==
    /\ [](/\ rd.salt = None <=> rh.off < SaltLen
          /\ rd.salt # None =>
                rd.salt = Some(SubSeq(wire, 1, SaltLen)) /\ rd.salt.val = wr.salt
          /\ rd.salt = None => rh.delivered = <<>> /\ rh.decs = <<>>
          /\ ~rh.trace.nosalt)
    /\ [][rd.salt # None => rd'.salt = rd.salt]_vars

\* the salt can be seen while nothing was decrypted or delivered yet
C13_Witness ==
    /\ rd.salt = Some(wr.salt)
    /\ rh.off = SaltLen /\ rh.last.kind = "Pending"
    /\ rh.decs = <<>> /\ rh.delivered = <<>>

\* and it is the same salt after frames were delivered
C13_WitnessLater ==
    /\ rd.salt = Some(wr.salt)
    /\ Len(rh.decs) = 4 /\ rh.delivered # <<>>

\* C14 as stated: handshaked() is false as long as the reader has decrypted
\* nothing, and a poll never takes it from true to false.
C14_FalseUntilFrameDecrypted ==
    /\ rh.decs = <<>> => ~rd.handshaked
    /\ rh.before.handshaked => rd.handshaked

\* C14 amended: handshaked() is false exactly as long as fewer than salt_len
\* bytes were read; it is true from the poll that completes the salt on,
\* whatever that poll and the later polls return, decrypted frame or not.
C14_HandshakeMonotonic ==
    /\ ~rd.handshaked <=> rh.off < SaltLen
    /\ rh.before.handshaked => rd.handshaked
    /\ rh.last.kind = "None" => ~rd.handshaked

\* true after the salt with no frame decrypted, the poll having returned Pending
C14_Witness ==
    /\ rd.handshaked /\ ~rh.before.handshaked
    /\ rh.decs = <<>> /\ rh.last.kind = "Pending"

\* still true after a poll that returned a decrypt error
C14_WitnessError ==
    /\ rd.handshaked /\ rh.before.handshaked
    /\ rh.last.kind = "DecryptDataError"

\* C15: between polls, handshaked is false iff the cipher is None iff the
\* state is WaitSalt, also after a poll that returned Pending or UnexpectedEof
\* with the salt partly read.
C15_HandshakedIffCipher ==
    /\ ~rd.handshaked <=> rd.cipher = None
    /\ ~rd.handshaked <=> rd.state.tag = "WaitSalt"
    /\ rd.state.tag = "WaitSalt" => Len(rd.buffer) < SaltLen /\ rd.salt = None

\* the salt is partly read and the transport closed: UnexpectedEof, and the
\* three still agree
C15_Witness ==
    /\ rh.last.kind = "UnexpectedEof"
    /\ rd.buffer # <<>> /\ rd.state.tag = "WaitSalt"
    /\ ~rd.handshaked /\ rd.cipher = None

\* the same after Pending
C15_WitnessPending ==
    /\ rh.last.kind = "Pending"
    /\ rd.buffer # <<>> /\ rd.state.tag = "WaitSalt"
    /\ ~rd.handshaked /\ rd.cipher = None

\* and all three have turned
C15_WitnessHandshaked ==
    rd.handshaked /\ rd.cipher # None /\ rd.state.tag = "ReadData"

\* C16 as stated: a call that returns Ready with room left in out_buf had no
\* further complete frame to take from the transport.
C16_CyclesUntilFull ==
    rh.last.kind = "Ok" /\ Len(rh.out) < rh.room => ~rh.more

\* C16 amended: a call goes round the loop until the BufferedData arm has
\* copied into out_buf, the transport is pending or at EOF, or an error is
\* returned.  A Ready call with bytes has copied min(undelivered, room) bytes
\* of one frame and entered at most one frame with plaintext; frames of
\* length 0 are passed over within the call; Pending comes only when the
\* transport has nothing left.
C16_CyclesUntilDelivered ==
    /\ rh.last.kind = "Ok" /\ rh.last.via = "BufferedData" =>
          /\ rd.state.tag = "BufferedData"
          /\ Len(rh.out) <= rd.state.pos
          /\ rh.out = SubSeq(rd.buffer, rd.state.pos - Len(rh.out) + 1, rd.state.pos)
          /\ Len(rh.out) = rh.room \/ rd.state.pos = Len(rd.buffer)
          /\ Cardinality({i \in 1..Len(rh.trace.entered) : rh.trace.entered[i] > 0}) <= 1
          /\ rh.trace.entered # <<>> =>
                rh.trace.entered[Len(rh.trace.entered)] = Len(rd.buffer)
    /\ rh.last.kind = "Ok" /\ rh.last.via = "None" =>
          rh.out = <<>> /\ rh.trace.eof /\ rh.dry
    /\ rh.last.kind = "Pending" =>
          rh.out = <<>> /\ rh.dry /\ ~rh.trace.eof
    /\ rh.last.kind \in {"Ok", "Pending"} =>
          \A i \in 1..(Len(rh.trace.entered) - 1) : rh.trace.entered[i] = 0

\* a one-byte frame is delivered into room for two while the next frame, with
\* plaintext, lies complete on the transport
C16_Witness ==
    /\ rh.last.kind = "Ok" /\ rh.room = 2 /\ Len(rh.out) = 1
    /\ rh.more

\* a frame of length 0 is passed over and the next frame delivered in one call
C16_WitnessCycle ==
    /\ rh.last.kind = "Ok" /\ rh.out # <<>>
    /\ Len(rh.trace.entered) = 2 /\ rh.trace.entered[1] = 0

\* C17: over any sequence of polls, also polls that resume after Pending and
\* polls made again after DecryptLengthError, DecryptDataError or DataTooLong,
\* no received segment is given to decrypt a second time (the segments are
\* told apart by the stream offset at which they end).
C17_DecryptOnce ==
    \A i, j \in 1..Len(rh.decs) : i # j => rh.decs[i] # rh.decs[j]

\* the stream offset at which the segment the reader is filling begins
SegmentStart ==
    IF rd.state.tag = "WaitSalt" THEN 0
    ELSE IF rh.decs = <<>> THEN SaltLen
    ELSE SegmentEnds(wh.frames, SaltLen)[Len(rh.decs)]

\* the size of the segment of the reader's state
SegmentSize ==
    CASE rd.state.tag = "WaitSalt"     -> SaltLen
      [] rd.state.tag = "ReadLength"   -> 2 + TagLen
      [] rd.state.tag = "ReadData"     -> rd.state.length + TagLen
      [] rd.state.tag = "BufferedData" -> Len(wh.frames[Len(rh.decs) \div 2])

\* C18: the buffer is never longer than the segment of the current state
\* (hence at most 0x3FFF + tag_len); while a segment is being read it holds
\* exactly the bytes of that segment taken so far, so it was empty on entry
\* into the state and no byte of a later segment was taken; in BufferedData
\* it holds the frame's plaintext and pos is within it.
C18_BufferDiscipline ==
    /\ Len(rd.buffer) <= SegmentSize
    /\ Len(rd.buffer) <= MAX_PACKET_SIZE + TagLen
    /\ rd.state.tag \in {"WaitSalt", "ReadLength", "ReadData"} =>
          /\ rd.buffer = SubSeq(wire, SegmentStart + 1, rh.off)
          /\ rh.off = SegmentStart + Len(rd.buffer)
          /\ Len(rd.buffer) < SegmentSize
    /\ rd.state.tag = "ReadLength" => Len(rh.decs) % 2 = 0
    /\ rd.state.tag = "ReadData" =>
          /\ Len(rh.decs) % 2 = 1
          /\ rd.state.length = Len(wh.frames[(Len(rh.decs) + 1) \div 2])
    /\ rd.state.tag = "BufferedData" =>
          /\ Len(rd.buffer) = SegmentSize
          /\ rd.state.pos <= Len(rd.buffer)
          /\ rh.off = SegmentStart

\* the data segment of the second frame is partly read: the buffer holds
\* those bytes and nothing of the length segment before it
C18_Witness ==
    /\ rd.state = ReadData(2) /\ Len(rd.buffer) = 2
    /\ Len(rh.decs) = 3
    /\ rd.buffer = SubSeq(wire, rh.off - 1, rh.off)

\* C19: with room for at least one byte in out_buf, Ready(Ok) with nothing
\* delivered is returned only when the transport is at EOF on a frame
\* boundary; a frame of length 0 never makes a call return: the reader does
\* not rest in BufferedData on it but goes on to the next length segment.
C19_EofUnambiguous ==
    /\ rh.last.kind = "Ok" /\ rh.room >= 1 /\ rh.out = <<>> =>
          /\ rh.last.via = "None" /\ rh.trace.eof /\ closed /\ rh.dry
          /\ rd.state = ReadLength /\ rd.buffer = <<>>
          /\ Len(rh.decs) % 2 = 0
          /\ rh.off = SegmentStart /\ rh.off = Len(wire) /\ rh.off >= SaltLen
          /\ rh.delivered = Concat(SubSeq(wh.frames, 1, Len(rh.decs) \div 2))
    /\ rd.state.tag = "BufferedData" => rd.buffer # <<>>
    /\ rh.last.kind = "Ok" /\ rh.last.via = "BufferedData" /\ rh.room >= 1 =>
          rh.out # <<>>

\* a frame of length 0 is passed over, and the same call finds the EOF
C19_Witness ==
    /\ rh.last = [kind |-> "Ok", via |-> "None"] /\ rh.room >= 1
    /\ rh.trace.entered = <<0>>
    /\ Len(rh.trace.decs) = 2
    /\ rh.delivered # <<>>

\* a frame of length 0 is passed over while the transport stays open: Pending
C19_WitnessOpen ==
    /\ rh.last.kind = "Pending" /\ rh.room >= 1
    /\ rh.trace.entered = <<0>> /\ Len(rh.trace.decs) = 2
    /\ rd.state = ReadLength

\* C20: a call that returns Pending or an error has put nothing into
\* out_buf; it never leaves the reader holding undelivered plaintext, and a
\* call that finds undelivered plaintext and room returns Ready.
C20_NothingBehindPendingOrError ==
    /\ rh.last.kind \notin {"None", "Ok"} =>
          /\ rh.out = <<>>
          /\ rd.state.tag # "BufferedData"
    /\ FoundUndelivered => rh.last.kind = "Ok"
    /\ rh.last.kind = "Ok" /\ rh.last.via = "None" => rh.out = <<>>

\* a call that began on a delivered frame, with room, ran into the tampered
\* next frame: error, and nothing in out_buf
C20_Witness ==
    /\ rh.last.kind = "DecryptDataError" /\ rh.room >= 1 /\ rh.out = <<>>
    /\ rh.before.state.tag = "BufferedData"
    /\ rh.delivered # <<>>

\* the same with Pending
C20_WitnessPending ==
    /\ rh.last.kind = "Pending" /\ rh.room >= 1 /\ rh.out = <<>>
    /\ rh.before.state.tag = "BufferedData"
    /\ Len(rh.trace.decs) = 1

====
